---- MODULE Spec2Model ----
(***************************************************************************)
(* Model of luminance's graphics buffers (luminance/src/buffer.rs).        *)
(*                                                                         *)
(* Buffer<S, T> is an owning handle over a backend representation          *)
(* S::BufferRepr; every method delegates to the backend trait.  BufferSlice*)
(* and BufferSliceMut are views that keep the `&mut` borrow of the Buffer  *)
(* they were obtained from (PhantomData<&'a mut ()>).                      *)
(*                                                                         *)
(* The backend traits (crate::backend::buffer) are not part of buffer.rs;  *)
(* the operators named backend_* model them from the specification.        *)
(* Rust indices are 0-based; sequence position i + 1 holds element i.      *)
(***************************************************************************)
EXTENDS Integers, Sequences, FiniteSets, TLC

----------------------------------------------------------------------------
(* Bounds *)

NBufs == 2
MaxLen == 2
MaxVal == 1
MaxViews == 2
MaxDestroy == 2

Bufs == 1..NBufs
Vals == 0..MaxVal
Views == 1..MaxViews
Lens == 0..MaxLen
Indices == 0..(MaxLen + 1)

SeqsOfLen(n) == [1..n -> Vals]
BufSeqs == UNION {SeqsOfLen(n) : n \in Lens}
HostSeqs == UNION {SeqsOfLen(n) : n \in 0..(MaxLen + 1)}

Repeat(n, x) == [k \in 1..n |-> x]

----------------------------------------------------------------------------
(* Result values *)

Ok == [tag |-> "Ok"]
Overflow(index, buffer_len) ==
  [tag |-> "Overflow", index |-> index, buffer_len |-> buffer_len]
TooFewValues(provided_len, buffer_len) ==
  [tag |-> "TooFewValues", provided_len |-> provided_len, buffer_len |-> buffer_len]
TooManyValues(provided_len, buffer_len) ==
  [tag |-> "TooManyValues", provided_len |-> provided_len, buffer_len |-> buffer_len]
MapFailed == [tag |-> "MapFailed"]

Some(x) == [tag |-> "Some", val |-> x]
None == [tag |-> "None"]
Vec(s) == [tag |-> "Vec", vals |-> s]
Usize(n) == [tag |-> "Usize", n |-> n]
Bool(p) == [tag |-> "Bool", b |-> p]
Unit == [tag |-> "Unit"]

VARIABLES
  handle,            \* handle[b]: "none" | "live" | "dropped"  (the Buffer value)
  data,              \* data[b]: contents of the backend representation
  reprState,         \* reprState[b]: "unalloc" | "valid" | "destroyed"
  destroyCount,      \* destroyCount[b]: number of destroy_buffer calls on the repr
  view,              \* view[b][v]: "none" | "ro" | "rw" | "dropped"  (the view value)
  sliceRepr,         \* sliceRepr[b][v]: backend mapping, "none" | "ro" | "rw"
  sliceDestroyCount, \* releases of the mapping held by view v since it was obtained
  lastOp,            \* the last operation of the core and its result
  lastCall           \* the last backend function invoked by the core

vars == <<handle, data, reprState, destroyCount, view, sliceRepr,
          sliceDestroyCount, lastOp, lastCall>>

Op(op, b, i, x, vals, res) ==
  [op |-> op, buf |-> b, i |-> i, x |-> x, vals |-> vals, res |-> res]

\* stale: the representation had already been destroyed when the call was made
Call(fn, b, i, x, vals, res) ==
  [fn |-> fn, buf |-> b, i |-> i, x |-> x, vals |-> vals, res |-> res,
   stale |-> (fn # "none" /\ b \in Bufs /\ reprState[b] = "destroyed")]

NoCall == [fn |-> "none", buf |-> 0, i |-> 0, x |-> 0, vals |-> <<>>,
           res |-> Unit, stale |-> FALSE]

----------------------------------------------------------------------------
(* Backend capability: crate::backend::buffer::Buffer *)

backend_at(d, i) == IF i < Len(d) THEN Some(d[i + 1]) ELSE None

backend_whole(d) == d

backend_len(d) == Len(d)

backend_set(d, i, x) ==
  IF i >= Len(d)
    THEN [data |-> d, res |-> Overflow(i, Len(d))]
    ELSE [data |-> [d EXCEPT ![i + 1] = x], res |-> Ok]

backend_write_whole(d, values) ==
  IF Len(values) < Len(d)
    THEN [data |-> d, res |-> TooFewValues(Len(values), Len(d))]
    ELSE IF Len(values) > Len(d)
      THEN [data |-> d, res |-> TooManyValues(Len(values), Len(d))]
      ELSE [data |-> [k \in 1..Len(d) |-> values[k]], res |-> Ok]

backend_clear(d, x) == [data |-> Repeat(Len(d), x), res |-> Ok]

\* Slice capability (crate::backend::buffer::BufferSlice): slice_buffer,
\* slice_buffer_mut, obtain_slice and obtain_slice_mut yield what they were
\* asked for (mapped) when the memory can be mapped (ok), MapFailed otherwise.
backend_map(ok, mapped) == IF ok THEN mapped ELSE MapFailed

----------------------------------------------------------------------------
(* Borrowing *)

LiveViews(b) == {v \in Views : view[b][v] \in {"ro", "rw"}}

\* A view is not tied to the borrow that produced it.
NoBorrowHeld(b) == FALSE

\* slice(&self): only the mutable view borrows the Buffer exclusively.
ReadOnlyViewShares(b) == \E v \in Views : view[b][v] = "rw"

\* BufferSlice<'a> / BufferSliceMut<'a> hold PhantomData<&'a mut ()>, and
\* slice(&mut self) / slice_mut(&mut self) tie 'a to the borrow of self.
MutBorrowed(b) == LiveViews(b) # {}

\* &self / &mut self can be taken on a Buffer that is owned and not borrowed.
CanBorrow(b) == handle[b] = "live" /\ ~MutBorrowed(b)

FreeSlots(b) == {v \in Views : view[b][v] \in {"none", "dropped"}}
NextSlot(b) == CHOOSE v \in FreeSlots(b) : \A w \in FreeSlots(b) : v <= w

----------------------------------------------------------------------------
Init ==
  /\ handle = [b \in Bufs |-> "none"]
  /\ data = [b \in Bufs |-> <<>>]
  /\ reprState = [b \in Bufs |-> "unalloc"]
  /\ destroyCount = [b \in Bufs |-> 0]
  /\ view = [b \in Bufs |-> [v \in Views |-> "none"]]
  /\ sliceRepr = [b \in Bufs |-> [v \in Views |-> "none"]]
  /\ sliceDestroyCount = [b \in Bufs |-> [v \in Views |-> 0]]
  /\ lastOp = Op("init", 0, 0, 0, <<>>, Unit)
  /\ lastCall = NoCall

----------------------------------------------------------------------------
(* Buffer<S, T>: the methods.  Each yields the backend call it makes, the  *)
(* contents of the representation afterwards and the value it returns.     *)

Effect(d, call, res) == [data |-> d, call |-> call, res |-> res]

\* at() asks the backend for the element after the one it was asked for.
Buffer_at_shifted(b, i) ==
  LET r == backend_at(data[b], i + 1)
  IN Effect(data[b], Call("at", b, i + 1, 0, <<>>, r), r)

Buffer_at(b, i) ==
  LET r == backend_at(data[b], i)
  IN Effect(data[b], Call("at", b, i, 0, <<>>, r), r)

Buffer_whole(b) ==
  LET r == Vec(backend_whole(data[b]))
  IN Effect(data[b], Call("whole", b, 0, 0, <<>>, r), r)

\* set() checks the index itself and calls the backend for valid indices only.
Buffer_set_validating(b, i, x) ==
  LET r == backend_set(data[b], i, x)
  IN IF i >= Len(data[b])
       THEN Effect(data[b], NoCall, Overflow(i, Len(data[b])))
       ELSE Effect(r.data, Call("set", b, i, x, <<>>, r.res), r.res)

\* set() drops the backend's result and reports success.
Buffer_set_ignores_result(b, i, x) ==
  LET r == backend_set(data[b], i, x)
  IN Effect(r.data, Call("set", b, i, x, <<>>, r.res), Ok)

\* set() delegates to the backend's clear.
Buffer_set_clears(b, i, x) ==
  LET r == backend_clear(data[b], x)
  IN Effect(r.data, Call("clear", b, 0, x, <<>>, r.res), r.res)

Buffer_set(b, i, x) ==
  LET r == backend_set(data[b], i, x)
  IN Effect(r.data, Call("set", b, i, x, <<>>, r.res), r.res)

\* write_whole() passes on at most as many values as the Buffer holds.
Buffer_write_whole_truncating(b, values) ==
  LET n == IF Len(values) < Len(data[b]) THEN Len(values) ELSE Len(data[b])
      r == backend_write_whole(data[b], SubSeq(values, 1, n))
  IN Effect(r.data, Call("write_whole", b, 0, 0, SubSeq(values, 1, n), r.res), r.res)

\* write_whole() reports success without calling the backend.
Buffer_write_whole_noop(b, values) == Effect(data[b], NoCall, Ok)

\* write_whole() replaces the contents, whatever the number of values.
Buffer_write_whole_resizing(b, values) ==
  Effect(values, Call("write_whole", b, 0, 0, values, Ok), Ok)

\* write_whole() copies the values it was given before it reports that
\* they are too few.
Buffer_write_whole_partial(b, values) ==
  LET r == backend_write_whole(data[b], values)
      d == [k \in 1..Len(data[b]) |->
              IF k <= Len(values) THEN values[k] ELSE data[b][k]]
  IN Effect(IF r.res.tag = "TooFewValues" THEN d ELSE r.data,
            Call("write_whole", b, 0, 0, values, r.res), r.res)

Buffer_write_whole(b, values) ==
  LET r == backend_write_whole(data[b], values)
  IN Effect(r.data, Call("write_whole", b, 0, 0, values, r.res), r.res)

\* clear() stores the value in the first element only.
Buffer_clear_first(b, x) ==
  LET r == backend_set(data[b], 0, x)
  IN Effect(r.data, Call("set", b, 0, x, <<>>, r.res), r.res)

Buffer_clear(b, x) ==
  LET r == backend_clear(data[b], x)
  IN Effect(r.data, Call("clear", b, 0, x, <<>>, r.res), r.res)

Buffer_len(b) ==
  LET r == Usize(backend_len(data[b]))
  IN Effect(data[b], Call("len", b, 0, 0, <<>>, r), r)

\* is_empty() tests the length against 1.
Buffer_is_empty_off_by_one(b) ==
  LET e == Buffer_len(b)
  IN Effect(e.data, e.call, Bool(e.res.n <= 1))

Buffer_is_empty(b) ==
  LET e == Buffer_len(b)
  IN Effect(e.data, e.call, Bool(e.res.n = 0))

\* Every live Buffer is backed by the one representation the call writes.
PerformShared(op, b, i, x, values, e) ==
  /\ data' = [c \in Bufs |-> IF handle[c] = "live" THEN e.data ELSE data[c]]
  /\ lastCall' = e.call
  /\ lastOp' = Op(op, b, i, x, values, e.res)
  /\ UNCHANGED <<handle, reprState, destroyCount, view, sliceRepr, sliceDestroyCount>>

\* A method call on Buffer b: the state after it has returned.
Perform(op, b, i, x, values, e) ==
  /\ data' = [data EXCEPT ![b] = e.data]
  /\ lastCall' = e.call
  /\ lastOp' = Op(op, b, i, x, values, e.res)
  /\ UNCHANGED <<handle, reprState, destroyCount, view, sliceRepr, sliceDestroyCount>>

----------------------------------------------------------------------------
(* Construction *)

\* The representation a constructor obtained from the backend, or its error.
Construct(op, b, len, x, values, contents, ok) ==
  /\ handle[b] = "none"
  /\ lastCall' = Call(op, b, len, x, values, IF ok THEN Ok ELSE MapFailed)
  /\ lastOp' = Op(op, b, len, x, values, IF ok THEN Ok ELSE MapFailed)
  /\ IF ok
       THEN /\ handle' = [handle EXCEPT ![b] = "live"]
            /\ reprState' = [reprState EXCEPT ![b] = "valid"]
            /\ data' = [data EXCEPT ![b] = contents]
       ELSE UNCHANGED <<handle, reprState, data>>
  /\ UNCHANGED <<destroyCount, view, sliceRepr, sliceDestroyCount>>

\* new_buffer leaves the contents unspecified: any contents of that length.
New(b, len) ==
  \E ok \in BOOLEAN : \E contents \in SeqsOfLen(len) :
    Construct("new", b, len, 0, <<>>, contents, ok)

\* from_slice() allocates through new_buffer and copies nothing.
FromSliceUninit(b, values) ==
  \E ok \in BOOLEAN : \E contents \in SeqsOfLen(Len(values)) :
    Construct("from_slice", b, 0, 0, values, contents, ok)

FromSlice(b, values) ==
  \E ok \in BOOLEAN : Construct("from_slice", b, 0, 0, values, values, ok)

\* repeat() allocates through new_buffer and drops the value.
RepeatNewUninit(b, len, x) ==
  \E ok \in BOOLEAN : \E contents \in SeqsOfLen(len) :
    Construct("repeat", b, len, x, <<>>, contents, ok)

RepeatNew(b, len, x) ==
  \E ok \in BOOLEAN : Construct("repeat", b, len, x, <<>>, Repeat(len, x), ok)

----------------------------------------------------------------------------
(* Plain operations *)

At(b, i) == CanBorrow(b) /\ Perform("at", b, i, 0, <<>>, Buffer_at(b, i))

Whole(b) == CanBorrow(b) /\ Perform("whole", b, 0, 0, <<>>, Buffer_whole(b))

Set(b, i, x) == CanBorrow(b) /\ Perform("set", b, i, x, <<>>, Buffer_set(b, i, x))

WriteWhole(b, values) ==
  CanBorrow(b) /\ Perform("write_whole", b, 0, 0, values, Buffer_write_whole(b, values))

Clear(b, x) == CanBorrow(b) /\ Perform("clear", b, 0, x, <<>>, Buffer_clear(b, x))

GetLen(b) == CanBorrow(b) /\ Perform("len", b, 0, 0, <<>>, Buffer_len(b))

IsEmpty(b) == CanBorrow(b) /\ Perform("is_empty", b, 0, 0, <<>>, Buffer_is_empty(b))

----------------------------------------------------------------------------
(* Destruction of the Buffer *)

\* The scope of Buffer b ends: the value is gone (h = "dropped") and drop()
\* has run (destroys: it called destroy_buffer).
EndOfBuffer(b, h, destroys) ==
  /\ handle[b] = "live"
  /\ ~MutBorrowed(b)
  /\ destroyCount[b] < MaxDestroy
  /\ handle' = [handle EXCEPT ![b] = h]
  /\ lastOp' = Op("drop", b, 0, 0, <<>>, Unit)
  /\ IF destroys
       THEN /\ destroyCount' = [destroyCount EXCEPT ![b] = @ + 1]
            /\ reprState' = [reprState EXCEPT ![b] = "destroyed"]
            /\ data' = [data EXCEPT ![b] = <<>>]
            /\ lastCall' = Call("destroy_buffer", b, 0, 0, <<>>, Unit)
       ELSE /\ lastCall' = NoCall
            /\ UNCHANGED <<destroyCount, reprState, data>>
  /\ UNCHANGED <<view, sliceRepr, sliceDestroyCount>>

\* drop() forgets to release the representation.
DropBufferLeaks(b) == EndOfBuffer(b, "dropped", FALSE)

\* destroy_buffer as a method that leaves the handle usable.
DropBufferKeepsHandle(b) == EndOfBuffer(b, "live", TRUE)

DropBuffer(b) == EndOfBuffer(b, "dropped", TRUE)

----------------------------------------------------------------------------
(* Views: BufferSlice and BufferSliceMut *)

\* slice() / slice_mut(): the backend maps the representation (fn) or fails;
\* on success the result is wrapped in a view of the given kind.
Acquire(op, fn, kind, b, ok) ==
  /\ CanBorrow(b)
  /\ FreeSlots(b) # {}
  /\ LET v == NextSlot(b)
     IN /\ lastCall' = Call(fn, b, 0, 0, <<>>, backend_map(ok, Ok))
        /\ lastOp' = Op(op, b, v, 0, <<>>, backend_map(ok, Ok))
        /\ IF ok
             THEN /\ view' = [view EXCEPT ![b][v] = kind]
                  /\ sliceRepr' = [sliceRepr EXCEPT ![b][v] = kind]
                  /\ sliceDestroyCount' = [sliceDestroyCount EXCEPT ![b][v] = 0]
             ELSE UNCHANGED <<view, sliceRepr, sliceDestroyCount>>
  /\ UNCHANGED <<handle, data, reprState, destroyCount>>

\* slice() wraps a view around whatever the backend answered.
SliceWrapsFailure(b) ==
  /\ CanBorrow(b)
  /\ FreeSlots(b) # {}
  /\ \E ok \in BOOLEAN :
       /\ lastCall' = Call("slice_buffer", b, 0, 0, <<>>, backend_map(ok, Ok))
       /\ lastOp' = Op("slice", b, NextSlot(b), 0, <<>>, backend_map(ok, Ok))
       /\ view' = [view EXCEPT ![b][NextSlot(b)] = "ro"]
       /\ sliceRepr' = [sliceRepr EXCEPT ![b][NextSlot(b)] = IF ok THEN "ro" ELSE "none"]
       /\ sliceDestroyCount' = [sliceDestroyCount EXCEPT ![b][NextSlot(b)] = 0]
  /\ UNCHANGED <<handle, data, reprState, destroyCount>>

Slice(b) == \E ok \in BOOLEAN : Acquire("slice", "slice_buffer", "ro", b, ok)

SliceMut(b) == \E ok \in BOOLEAN : Acquire("slice_mut", "slice_buffer_mut", "rw", b, ok)

\* The scope of view v of Buffer b ends; drop() releases the mapping through fn.
EndOfView(op, fn, kind, b, v, releases) ==
  /\ view[b][v] = kind
  /\ sliceDestroyCount[b][v] < MaxDestroy
  /\ view' = [view EXCEPT ![b][v] = "dropped"]
  /\ lastOp' = Op(op, b, v, 0, <<>>, Unit)
  /\ IF releases
       THEN /\ sliceRepr' = [sliceRepr EXCEPT ![b][v] = "none"]
            /\ sliceDestroyCount' = [sliceDestroyCount EXCEPT ![b][v] = @ + 1]
            /\ lastCall' = Call(fn, b, v, 0, <<>>, Unit)
       ELSE /\ lastCall' = NoCall
            /\ UNCHANGED <<sliceRepr, sliceDestroyCount>>
  /\ UNCHANGED <<handle, data, reprState, destroyCount>>

\* drop() of the read-only view forgets to unmap.
DropSliceLeaks(b, v) ==
  EndOfView("drop_slice", "destroy_buffer_slice", "ro", b, v, FALSE)

DropSlice(b, v) ==
  EndOfView("drop_slice", "destroy_buffer_slice", "ro", b, v, TRUE)

DropSliceMut(b, v) ==
  EndOfView("drop_slice_mut", "destroy_buffer_slice_mut", "rw", b, v, TRUE)

\* as_slice() returns an empty slice when the backend fails.
AsSliceDefaultsOnFailure(b, v) ==
  /\ view[b][v] = "ro"
  /\ \E ok \in BOOLEAN :
       /\ lastCall' = Call("obtain_slice", b, v, 0, <<>>, backend_map(ok, Vec(data[b])))
       /\ lastOp' = Op("as_slice", b, v, 0, <<>>, IF ok THEN Vec(data[b]) ELSE Vec(<<>>))
  /\ UNCHANGED <<handle, data, reprState, destroyCount, view, sliceRepr,
                 sliceDestroyCount>>

\* as_slice(): the backend exposes the mapped memory, or fails.
AsSlice(b, v) ==
  /\ view[b][v] = "ro"
  /\ \E ok \in BOOLEAN :
       LET r == backend_map(ok, Vec(data[b]))
       IN /\ lastCall' = Call("obtain_slice", b, v, 0, <<>>, r)
          /\ lastOp' = Op("as_slice", b, v, 0, <<>>, r)
  /\ UNCHANGED <<handle, data, reprState, destroyCount, view, sliceRepr,
                 sliceDestroyCount>>

\* as_slice_mut(): as as_slice(), the memory being writable.
AsSliceMut(b, v) ==
  /\ view[b][v] = "rw"
  /\ \E ok \in BOOLEAN :
       LET r == backend_map(ok, Vec(data[b]))
       IN /\ lastCall' = Call("obtain_slice_mut", b, v, 0, <<>>, r)
          /\ lastOp' = Op("as_slice_mut", b, v, 0, <<>>, r)
  /\ UNCHANGED <<handle, data, reprState, destroyCount, view, sliceRepr,
                 sliceDestroyCount>>

\* as_slice_mut() succeeded and the caller stores x at position i of the
\* mapped memory, which is the memory of the Buffer.
StoreMapped(b, v, i, x) ==
  /\ view[b][v] = "rw"
  /\ i < Len(data[b])
  /\ data' = [data EXCEPT ![b][i + 1] = x]
  /\ lastCall' = Call("obtain_slice_mut", b, v, 0, <<>>, Vec(data'[b]))
  /\ lastOp' = Op("store_mapped", b, i, x, <<>>, Unit)
  /\ UNCHANGED <<handle, reprState, destroyCount, view, sliceRepr,
                 sliceDestroyCount>>

----------------------------------------------------------------------------
\* The operations on the Buffers of B, their views included.
NextOn(B) ==
  \/ \E b \in B, len \in Lens : New(b, len)
  \/ \E b \in B, values \in BufSeqs : FromSlice(b, values)
  \/ \E b \in B, len \in Lens, x \in Vals : RepeatNew(b, len, x)
  \/ \E b \in B, i \in Indices : At(b, i)
  \/ \E b \in B : Whole(b)
  \/ \E b \in B, i \in Indices, x \in Vals : Set(b, i, x)
  \/ \E b \in B, values \in HostSeqs : WriteWhole(b, values)
  \/ \E b \in B, x \in Vals : Clear(b, x)
  \/ \E b \in B : GetLen(b)
  \/ \E b \in B : IsEmpty(b)
  \/ \E b \in B : Slice(b)
  \/ \E b \in B : SliceMut(b)
  \/ \E b \in B, v \in Views : AsSlice(b, v)
  \/ \E b \in B, v \in Views : AsSliceMut(b, v)
  \/ \E b \in B, v \in Views, i \in Indices, x \in Vals : StoreMapped(b, v, i, x)
  \/ \E b \in B, v \in Views : DropSlice(b, v)
  \/ \E b \in B, v \in Views : DropSliceMut(b, v)
  \/ \E b \in B : DropBuffer(b)

\* One Buffer, from before its construction to after its destruction.
Next == NextOn({1})

Spec == Init /\ [][Next]_vars

\* Every Buffer of Bufs.
NextAll == NextOn(Bufs)

SpecAll == Init /\ [][NextAll]_vars

TypeOK ==
  /\ handle \in [Bufs -> {"none", "live", "dropped"}]
  /\ data \in [Bufs -> BufSeqs]
  /\ reprState \in [Bufs -> {"unalloc", "valid", "destroyed"}]
  /\ destroyCount \in [Bufs -> 0..MaxDestroy]
  /\ view \in [Bufs -> [Views -> {"none", "ro", "rw", "dropped"}]]
  /\ sliceRepr \in [Bufs -> [Views -> {"none", "ro", "rw"}]]
  /\ sliceDestroyCount \in [Bufs -> [Views -> 0..MaxDestroy]]

----------------------------------------------------------------------------
(* Properties *)

PlainOps == {"at", "whole", "set", "write_whole", "clear"}

ReprFns == {"at", "whole", "set", "write_whole", "clear", "len",
            "slice_buffer", "slice_buffer_mut"}

\* C1: a Buffer never has more than one live view, read-only and mutable
\* views counted together.
AtMostOneLiveView == \A b \in Bufs : Cardinality(LiveViews(b)) <= 1

\* slice() or slice_mut() has succeeded and its view is the only live one.
AtMostOneLiveViewWitness ==
  /\ lastOp.op \in {"slice", "slice_mut"}
  /\ lastOp.res = Ok
  /\ sliceDestroyCount[1][1] = 0
  /\ \E v \in Views : LiveViews(1) = {v}

\* C2: a plain operation (at, whole, set, write_whole, clear) is only performed
\* on a Buffer that has no live view.
NoPlainOpWhileViewLive ==
  lastOp.op \in PlainOps => LiveViews(lastOp.buf) = {}

\* A plain write on a Buffer whose view has been released.
NoPlainOpWhileViewLiveWitness ==
  /\ lastOp.op = "set"
  /\ lastOp.buf = 1
  /\ \E v \in Views : view[1][v] = "dropped"

\* C3: destroy_buffer has been called exactly once on the representation of
\* a Buffer whose scope has ended, by the step that ended it, and not at all
\* on the representation of any other Buffer.
DestroyedExactlyOnce ==
  /\ \A b \in Bufs :
       destroyCount[b] = IF handle[b] = "dropped" THEN 1 ELSE 0
  /\ lastOp.op = "drop" =>
       /\ lastCall.fn = "destroy_buffer"
       /\ lastCall.buf = lastOp.buf
       /\ ~lastCall.stale

\* The scope of a Buffer has just ended.
DestroyedExactlyOnceWitness ==
  /\ lastOp.op = "drop"
  /\ handle[1] = "dropped"
  /\ destroyCount[1] = 1

\* C4: no backend operation is invoked on a representation after
\* destroy_buffer has been called on it.
NoUseAfterDestroy == lastCall.fn \in ReprFns => ~lastCall.stale

\* The representation of a Buffer that was in use has been destroyed.
NoUseAfterDestroyWitness ==
  /\ reprState[1] = "destroyed"
  /\ lastCall.fn = "destroy_buffer"

\* C5: the mapping of a live view is established and not released; the
\* mapping of a view whose scope has ended has been released exactly once,
\* through the function of its kind; and no mapping is outstanding once
\* destroy_buffer has been called on the Buffer.
ViewReleasedExactlyOnce ==
  /\ \A b \in Bufs, v \in Views :
       /\ view[b][v] \in {"ro", "rw"} =>
            sliceRepr[b][v] = view[b][v] /\ sliceDestroyCount[b][v] = 0
       /\ view[b][v] = "dropped" =>
            sliceRepr[b][v] = "none" /\ sliceDestroyCount[b][v] = 1
       /\ view[b][v] = "none" =>
            sliceRepr[b][v] = "none" /\ sliceDestroyCount[b][v] = 0
  /\ lastOp.op = "drop_slice" =>
       lastCall.fn = "destroy_buffer_slice" /\ ~lastCall.stale
  /\ lastOp.op = "drop_slice_mut" =>
       lastCall.fn = "destroy_buffer_slice_mut" /\ ~lastCall.stale
  /\ \A b \in Bufs :
       destroyCount[b] > 0 =>
         \A v \in Views : sliceRepr[b][v] = "none" /\ view[b][v] \notin {"ro", "rw"}

\* A view was released, and then its Buffer destroyed.
ViewReleasedExactlyOnceWitness ==
  /\ handle[1] = "dropped"
  /\ \E v \in Views : view[1][v] = "dropped" /\ sliceDestroyCount[1][v] = 1

RoundTrip ==
  (lastOp.op = "write_whole" /\ Len(lastOp.vals) = Len(data[lastOp.buf])) =>
    /\ lastOp.res = Ok
    /\ Buffer_whole(lastOp.buf).res = Vec(lastOp.vals)

\* Two different values have been written over a Buffer of two elements.
RoundTripWitness ==
  /\ lastOp.op = "write_whole"
  /\ lastOp.res = Ok
  /\ Len(lastOp.vals) = 2
  /\ lastOp.vals[1] # lastOp.vals[2]

\* C10: a set(i, x) that succeeded makes at(i) return Some(x) and leaves what
\* at(j) returns unchanged for every other index j.
IndexAgreement ==
  [][(lastOp'.op = "set" /\ lastOp'.res = Ok) =>
     \A b \in Bufs, i \in Indices, x \in Vals :
       (lastOp'.buf = b /\ lastOp'.i = i /\ lastOp'.x = x) =>
         /\ Buffer_at(b, i).res' = Some(x)
         /\ \A j \in Indices \ {i} : Buffer_at(b, j).res' = Buffer_at(b, j).res]_vars

\* set(0, x) has succeeded on a Buffer whose other element differs from x.
IndexAgreementWitness ==
  /\ lastOp.op = "set"
  /\ lastOp.res = Ok
  /\ lastOp.i = 0
  /\ Len(data[lastOp.buf]) = 2
  /\ data[lastOp.buf][1] = lastOp.x
  /\ data[lastOp.buf][2] # lastOp.x

\* The length a constructor was asked for.
RequestedLen(o) == IF o.op = "from_slice" THEN Len(o.vals) ELSE o.i

\* C11: len() returns the length the Buffer was constructed with, and no
\* operation on the Buffer or on its views, successful or failed, changes
\* what len() returns.
LenFixed ==
  [][\A b \in Bufs :
       /\ (handle[b] = "live" /\ handle'[b] = "live") =>
            Buffer_len(b).res' = Buffer_len(b).res
       /\ (handle[b] = "none" /\ handle'[b] = "live") =>
            Buffer_len(b).res' = Usize(RequestedLen(lastOp'))]_vars

\* len() still returns 2 after a failed write on a Buffer whose view has
\* been released.
LenFixedWitness ==
  /\ lastOp.op = "write_whole"
  /\ lastOp.res.tag = "TooManyValues"
  /\ Buffer_len(1).res = Usize(2)
  /\ \E v \in Views : view[1][v] = "dropped"

\* C12: on a Buffer of length N, at(i) returns Some of the element stored at
\* i for i < N and None for i >= N, never an error, and leaves the contents
\* as they were.
AtTotal ==
  [][lastOp'.op = "at" =>
       /\ data' = data
       /\ lastOp'.res = IF lastOp'.i < Len(data[lastOp'.buf])
                          THEN Some(data[lastOp'.buf][lastOp'.i + 1])
                          ELSE None]_vars

\* at(N) on a non-empty Buffer of length N has returned None.
AtTotalWitness ==
  /\ lastOp.op = "at"
  /\ Len(data[lastOp.buf]) > 0
  /\ lastOp.i = Len(data[lastOp.buf])
  /\ lastOp.res = None

MapFn(op) ==
  CASE op = "slice" -> "slice_buffer"
    [] op = "slice_mut" -> "slice_buffer_mut"
    [] op = "as_slice" -> "obtain_slice"
    [] op = "as_slice_mut" -> "obtain_slice_mut"

\* C13: slice(), slice_mut(), as_slice() and as_slice_mut() make one call of
\* their backend function and return its result: MapFailed exactly when the
\* backend failed to map.
MapFailureSurfaced ==
  lastOp.op \in {"slice", "slice_mut", "as_slice", "as_slice_mut"} =>
    /\ lastCall.fn = MapFn(lastOp.op)
    /\ lastCall.buf = lastOp.buf
    /\ lastOp.res = lastCall.res
    /\ lastOp.res \in {MapFailed, Ok, Vec(data[lastOp.buf])}
    /\ lastOp.op \in {"slice", "slice_mut"} =>
         (lastOp.res = Ok <=> view[lastOp.buf][lastOp.i] \in {"ro", "rw"})

\* as_slice() has failed with MapFailed on a live view.
MapFailureSurfacedWitness ==
  /\ lastOp.op = "as_slice"
  /\ lastOp.res = MapFailed
  /\ lastCall.res = MapFailed
  /\ view[lastOp.buf][lastOp.i] = "ro"

\* C14: a Buffer built by repeat(len, v) has len() = len, and whole() returns
\* len elements, each equal to v.
RepeatFill ==
  (lastOp.op = "repeat" /\ lastOp.res = Ok) =>
    /\ handle[lastOp.buf] = "live"
    /\ Buffer_len(lastOp.buf).res = Usize(lastOp.i)
    /\ Len(Buffer_whole(lastOp.buf).res.vals) = lastOp.i
    /\ \A k \in 1..lastOp.i : Buffer_whole(lastOp.buf).res.vals[k] = lastOp.x

\* repeat(2, 1) has succeeded.
RepeatFillWitness ==
  /\ lastOp.op = "repeat"
  /\ lastOp.res = Ok
  /\ lastOp.i = 2
  /\ lastOp.x = 1
  /\ handle[lastOp.buf] = "live"

\* C15: a Buffer built by from_slice(values) has len() = Len(values), whole()
\* returns values, and at(i) returns Some(values[i]) for every valid i.
FromSliceCopies ==
  (lastOp.op = "from_slice" /\ lastOp.res = Ok) =>
    /\ handle[lastOp.buf] = "live"
    /\ Buffer_len(lastOp.buf).res = Usize(Len(lastOp.vals))
    /\ Buffer_whole(lastOp.buf).res = Vec(lastOp.vals)
    /\ \A i \in 0..(Len(lastOp.vals) - 1) :
         Buffer_at(lastOp.buf, i).res = Some(lastOp.vals[i + 1])

\* from_slice of two different values has succeeded.
FromSliceCopiesWitness ==
  /\ lastOp.op = "from_slice"
  /\ lastOp.res = Ok
  /\ Len(lastOp.vals) = 2
  /\ lastOp.vals[1] # lastOp.vals[2]
  /\ handle[lastOp.buf] = "live"

\* C16: on a Buffer of length N, clear(v) succeeds and whole() then returns
\* N elements, each equal to v.
ClearFills ==
  [][lastOp'.op = "clear" =>
       /\ lastOp'.res = Ok
       /\ Len(data'[lastOp'.buf]) = Len(data[lastOp'.buf])
       /\ \A k \in 1..Len(data[lastOp'.buf]) : data'[lastOp'.buf][k] = lastOp'.x
       /\ \A b \in Bufs : lastOp'.buf = b => Buffer_whole(b).res' = Vec(data'[b])]_vars

\* clear(v) has succeeded on a Buffer of two elements.
ClearFillsWitness ==
  /\ lastOp.op = "clear"
  /\ lastOp.res = Ok
  /\ Len(data[lastOp.buf]) = 2
  /\ Buffer_whole(lastOp.buf).res = Vec(<<lastOp.x, lastOp.x>>)

\* C17: is_empty() is true exactly when the length is 0, and on a Buffer of
\* length 0 at(0) returns None and whole() returns the empty sequence.
EmptyBuffer ==
  /\ \A b \in Bufs :
       handle[b] = "live" =>
         /\ Buffer_is_empty(b).res = Bool(Buffer_len(b).res = Usize(0))
         /\ Buffer_len(b).res = Usize(0) =>
              /\ Buffer_at(b, 0).res = None
              /\ Buffer_whole(b).res = Vec(<<>>)
  /\ lastOp.op = "is_empty" =>
       lastOp.res = Bool(Len(data[lastOp.buf]) = 0)

\* is_empty() has returned true on a live Buffer.
EmptyBufferWitness ==
  /\ lastOp.op = "is_empty"
  /\ lastOp.res = Bool(TRUE)
  /\ handle[lastOp.buf] = "live"

\* C18: every valid representation belongs to exactly one live Buffer, and
\* an operation on one Buffer (set, write_whole, clear and its destruction
\* among them) leaves the handle, the representation, the contents and the
\* length of every other Buffer as they were.
ExclusiveRepr ==
  [][/\ \A b \in Bufs : (reprState'[b] = "valid") <=> (handle'[b] = "live")
     /\ \A b \in Bufs \ {lastOp'.buf} :
          /\ handle'[b] = handle[b]
          /\ reprState'[b] = reprState[b]
          /\ destroyCount'[b] = destroyCount[b]
          /\ data'[b] = data[b]
          /\ Buffer_whole(b).res' = Buffer_whole(b).res
          /\ Buffer_len(b).res' = Buffer_len(b).res]_vars

\* One Buffer has been destroyed after writes to it, while another Buffer
\* is live with its two elements.
ExclusiveReprWitness ==
  /\ lastOp.op = "drop"
  /\ lastOp.buf = 1
  /\ handle[1] = "dropped"
  /\ handle[2] = "live"
  /\ reprState[2] = "valid"
  /\ data[2] = <<0, 1>>

WriteErrors == {"Overflow", "TooFewValues", "TooManyValues"}

ConstructOps == {"new", "from_slice", "repeat"}

AcquireOps == {"slice", "slice_mut"}

\* C20: a constructor that fails leaves no Buffer and no representation, so
\* that destroy_buffer is not called; a slice() or slice_mut() that fails
\* leaves no view and no mapping, so that neither destroy function is called,
\* and leaves the Buffer live and not borrowed.
FailedAcquireNoEffect ==
  [][(lastOp'.op \in ConstructOps \cup AcquireOps /\ lastOp'.res # Ok) =>
       /\ UNCHANGED <<handle, data, reprState, destroyCount, view, sliceRepr,
                      sliceDestroyCount>>
       /\ lastCall'.res = lastOp'.res
       /\ \A b \in Bufs :
            lastOp'.buf = b =>
              /\ lastOp'.op \in ConstructOps =>
                   /\ lastCall'.fn = lastOp'.op
                   /\ handle'[b] = "none"
                   /\ reprState'[b] = "unalloc"
                   /\ destroyCount'[b] = 0
              /\ lastOp'.op \in AcquireOps =>
                   /\ lastCall'.fn = MapFn(lastOp'.op)
                   /\ LiveViews(b)' = {}
                   /\ \A v \in Views : sliceRepr'[b][v] = "none"
                   /\ CanBorrow(b)']_vars

\* slice_mut() has failed on a live Buffer, which can be borrowed again.
FailedAcquireNoEffectWitness ==
  /\ lastOp.op = "slice_mut"
  /\ lastOp.res = MapFailed
  /\ CanBorrow(lastOp.buf)
  /\ \A v \in Views : sliceRepr[lastOp.buf][v] = "none"

====
